---------------------------- MODULE Spec2Model ----------------------------
(***************************************************************************)
(* The client-side state synchronisation of the driving-log map viewer     *)
(* (frontend/src/App.tsx, frontend/src/api.ts): paginated catalog loads,   *)
(* on-demand detail fetches, the cancellable preview-image fetch and the   *)
(* viewport gate.                                                          *)
(*                                                                         *)
(* Execution model: the browser event loop.  One action is one task: an    *)
(* event handler or a promise callback together with the React render and  *)
(* the effects that render triggers (useEffect bodies and the state        *)
(* updaters they queue).  Network fetches are pending promises, kept in    *)
(* pageRequests, detailRequests and previewRequests, and settle in any     *)
(* order.                                                                  *)
(***************************************************************************)
EXTENDS Integers, Sequences, FiniteSets

----------------------------------------------------------------------------
(* Values *)

\* log identifiers known to the server
Ids == {"a", "b"}

\* `undefined` / `null` of a string-valued field
NoLog == "none"
NoError == ""

\* failure descriptions: err.message of a rejected fetch
Failures == {"Request failed", "Failed to fetch"}

\* DISPLAY_ZOOM_THRESHOLD and DEFAULT_ZOOM
DISPLAY_ZOOM_THRESHOLD == 14
DEFAULT_ZOOM == 14

\* number of palette colours (COLORS.length)
NumColors == 7

\* a record without detail.bounds: no zoom from getBoundsZoom
NoBounds == 0
\* `null` of nextOffset / totalLogs
NoNumber == -1
\* `null` of previewImageUrlRef / `undefined` imageUrl
NoUrl == 0

\* Bounds of the model
MaxRequestId == 3
MaxOffset == 1
MaxTotal == 2
MaxPageLen == 2
ZoomBelow == 1
ZoomAbove == 0
\* the page size the client asks for (LOGS_PAGE_SIZE, scaled down)
PageLimit == 1

\* the zoom levels the map takes, around DISPLAY_ZOOM_THRESHOLD
MinZoom == DISPLAY_ZOOM_THRESHOLD - ZoomBelow
MaxZoom == DISPLAY_ZOOM_THRESHOLD + ZoomAbove
ZoomLevels == MinZoom..MaxZoom

\* DrivingLogDetail: the trajectory and, for bounds, the zoom the map's
\* getBoundsZoom primitive answers for them (NoBounds when detail.bounds is
\* absent)
NoDetail == [present |-> FALSE, trajectory |-> <<>>, boundsZoom |-> NoBounds]

Detail(traj, bz) == [present |-> TRUE, trajectory |-> traj, boundsZoom |-> bz]

\* LogState of a catalog item freshly merged (loadLogs: { summary: log, loading: false })
FreshRecord(summary) ==
    [summary |-> summary, detail |-> NoDetail, loading |-> FALSE, error |-> NoError]

\* PreviewState | null
NullPreview == [logId |-> NoLog, imageUrl |-> NoUrl, loading |-> FALSE, error |-> NoError]

PreviewLoading(logId) ==
    [logId |-> logId, imageUrl |-> NoUrl, loading |-> TRUE, error |-> NoError]

PreviewImage(logId, url) ==
    [logId |-> logId, imageUrl |-> url, loading |-> FALSE, error |-> NoError]

PreviewError(logId, msg) ==
    [logId |-> logId, imageUrl |-> NoUrl, loading |-> FALSE, error |-> msg]

----------------------------------------------------------------------------
(* Sequences used as insertion-ordered sets (JS Set / string[]) *)

Range(s) == {s[i] : i \in 1..Len(s)}

RECURSIVE SeqRemove(_, _)
SeqRemove(s, x) ==
    IF s = <<>> THEN <<>>
    ELSE IF Head(s) = x THEN SeqRemove(Tail(s), x)
    ELSE <<Head(s)>> \o SeqRemove(Tail(s), x)

\* Set.prototype.add: an element already present keeps its place
SetAdd(s, x) == IF x \in Range(s) THEN s ELSE Append(s, x)

\* new Set(array): first occurrences, in order
RECURSIVE Dedup(_, _)
Dedup(seen, s) ==
    IF s = <<>> THEN <<>>
    ELSE IF Head(s) \in seen THEN Dedup(seen, Tail(s))
    ELSE <<Head(s)>> \o Dedup(seen \cup {Head(s)}, Tail(s))

NoDup(s) == \A i, j \in 1..Len(s) : s[i] = s[j] => i = j

----------------------------------------------------------------------------
VARIABLES
    \* React state of App
    logState, logOrder, activeLogs, error, isLoadingSummaries, isLoadingMore,
    totalLogs, nextOffset, lastActivatedLog, currentZoom, hoveredLogId,
    isPreviewOpen, previewState,
    \* refs of App
    previewImageUrlRef, previewRequestIdRef,
    \* whether App is mounted
    mounted,
    \* the Leaflet map's own zoom and centre
    mapZoom, mapCenter,
    \* pending and settled promises, and the blob URLs of the document
    pageRequests, detailRequests, previewRequests, objectUrls, revokedUrls

pageVars == <<logOrder, error, isLoadingSummaries, isLoadingMore, totalLogs,
              nextOffset, pageRequests>>
detailVars == <<logState, detailRequests>>
selectVars == <<activeLogs, lastActivatedLog>>
viewVars == <<currentZoom, hoveredLogId, mapZoom, mapCenter>>
previewVars == <<isPreviewOpen, previewState, previewImageUrlRef,
                 previewRequestIdRef, previewRequests, objectUrls, revokedUrls>>
vars == <<pageVars, detailVars, selectVars, viewVars, previewVars, mounted>>

----------------------------------------------------------------------------
(* Values derived at render *)

shouldRenderAlways(zoom) == TRUE

\* const shouldRenderTrajectories = currentZoom >= DISPLAY_ZOOM_THRESHOLD
shouldRenderTrajectories(zoom) == zoom >= DISPLAY_ZOOM_THRESHOLD

\* polylineData keeps a selected log when its detail has at least one point
HasPoints(ls, logId) ==
    /\ logId \in DOMAIN ls
    /\ ls[logId].detail.present
    /\ Len(ls[logId].detail.trajectory) > 0

RECURSIVE LayerIds(_, _)
LayerIds(active, ls) ==
    IF active = <<>> THEN <<>>
    ELSE IF HasPoints(ls, Head(active))
         THEN <<Head(active)>> \o LayerIds(Tail(active), ls)
         ELSE LayerIds(Tail(active), ls)

polylineDataByPosition(active, ls) ==
    LET ids == LayerIds(active, ls)
        At(logId) == CHOOSE i \in 1..Len(active) : active[i] = logId
    IN  [k \in 1..Len(ids) |-> [logId |-> ids[k], color |-> (At(ids[k]) - 1) % NumColors]]

\* polylineData: the layers, each with COLORS[colorIndex % COLORS.length]
polylineData(active, ls) ==
    LET ids == LayerIds(active, ls)
    IN  [k \in 1..Len(ids) |-> [logId |-> ids[k], color |-> (k - 1) % NumColors]]

\* isAllSelected
isAllSelected(order, active) ==
    Len(order) > 0 /\ \A i \in 1..Len(order) : order[i] \in Range(active)

----------------------------------------------------------------------------
(* URL.createObjectURL / URL.revokeObjectURL on the document's blob URLs *)

RevokeNothing(urls, url) == urls

Revoke(urls, url) == urls \ {url}

RevokedNothing(revoked, url) == revoked

Revoked(revoked, url) == revoked \cup {url}

----------------------------------------------------------------------------
(* The detail fetch effect: useEffect(..., [activeLogs]) *)

NeedsDetailFetchNoLoading(ls, logId) ==
    /\ logId \in DOMAIN ls
    /\ ~ls[logId].detail.present

\* the updater's early return: if (!entry || entry.detail || entry.loading) return prev
NeedsDetailFetch(ls, logId) ==
    /\ logId \in DOMAIN ls
    /\ ~ls[logId].detail.present
    /\ ~ls[logId].loading

\* the identifiers the effect issues fetchLogDetail for
DetailFetchIds(active, ls) == {logId \in Range(active) : NeedsDetailFetch(ls, logId)}

DetailFetchEffectCancel(active, ls) ==
    [logId \in DOMAIN ls |->
        IF logId \in DetailFetchIds(active, ls)
        THEN [ls[logId] EXCEPT !.loading = TRUE]
        ELSE IF logId \notin Range(active)
             THEN [ls[logId] EXCEPT !.loading = FALSE]
             ELSE ls[logId]]

\* logState after the effect's updaters: next.set(logId, { ...entry, loading: true })
DetailFetchEffect(active, ls) ==
    [logId \in DOMAIN ls |->
        IF logId \in DetailFetchIds(active, ls)
        THEN [ls[logId] EXCEPT !.loading = TRUE]
        ELSE ls[logId]]

DetailFetchIssueNone(active, ls, reqs) == reqs

\* the pending fetchLogDetail promises after the effect
DetailFetchIssue(active, ls, reqs) ==
    [logId \in Ids |->
        IF logId \in DetailFetchIds(active, ls) THEN reqs[logId] + 1 ELSE reqs[logId]]

DetailSuccessKeepError(state, detail) ==
    [state EXCEPT !.detail = detail, !.loading = FALSE]

\* .then: updated.set(logId, { ...state, detail, loading: false, error: undefined })
DetailSuccess(state, detail) ==
    [state EXCEPT !.detail = detail, !.loading = FALSE, !.error = NoError]

DetailFailureKeepLoading(state, msg) == [state EXCEPT !.error = msg]

\* .catch: updated.set(logId, { ...state, loading: false, error: message })
DetailFailure(state, msg) == [state EXCEPT !.loading = FALSE, !.error = msg]

----------------------------------------------------------------------------
(* FocusController: useEffect(..., [lastActivatedLog, logState, map]) *)

Max(x, y) == IF x >= y THEN x ELSE y

FocusTargetZoomRaw(zoom) == zoom

\* Math.max(zoom, DISPLAY_ZOOM_THRESHOLD)
FocusTargetZoom(zoom) == Max(zoom, DISPLAY_ZOOM_THRESHOLD)

\* whether the effect reaches map.setView
FocusApplies(last, ls) == last # NoLog /\ HasPoints(ls, last)

FocusViewKeepZoom(last, ls, zoom, center) ==
    IF ~FocusApplies(last, ls) THEN [zoom |-> zoom, center |-> center]
    ELSE [zoom |-> zoom, center |-> ls[last].detail.trajectory[1]]

\* the map's [zoom, center] after the effect has run
FocusView(last, ls, zoom, center) ==
    IF ~FocusApplies(last, ls) THEN [zoom |-> zoom, center |-> center]
    ELSE LET detail == ls[last].detail
         IN  [zoom |-> IF detail.boundsZoom # NoBounds
                       THEN FocusTargetZoom(detail.boundsZoom)
                       ELSE FocusTargetZoom(zoom),
              center |-> detail.trajectory[1]]

\* the effect runs when lastActivatedLog changed or setLogState stored a new Map
FocusAfter(ran) ==
    LET view == FocusView(lastActivatedLog', logState', mapZoom, mapCenter)
    IN  IF ran /\ mounted
        THEN mapZoom' = view.zoom /\ mapCenter' = view.center
        ELSE UNCHANGED <<mapZoom, mapCenter>>

----------------------------------------------------------------------------
(* loadLogs: merging a catalog page *)

EmptyMap == [logId \in {} |-> FreshRecord([log_id |-> NoLog, num_points |-> 0])]

RECURSIVE MergeItemsFresh(_, _)
MergeItemsFresh(base, items) ==
    IF items = <<>> THEN base
    ELSE LET log == Head(items)
             next == [logId \in DOMAIN base \cup {log.log_id} |->
                         IF logId = log.log_id THEN FreshRecord(log) ELSE base[logId]]
         IN  MergeItemsFresh(next, Tail(items))

RECURSIVE MergeItemsKeepSummary(_, _)
MergeItemsKeepSummary(base, items) ==
    IF items = <<>> THEN base
    ELSE LET log == Head(items)
             next == IF log.log_id \in DOMAIN base
                     THEN base
                     ELSE [logId \in DOMAIN base \cup {log.log_id} |->
                              IF logId = log.log_id THEN FreshRecord(log)
                              ELSE base[logId]]
         IN  MergeItemsKeepSummary(next, Tail(items))

\* response.items.forEach of setLogState: refresh the summary or add a record
RECURSIVE MergeItems(_, _)
MergeItems(base, items) ==
    IF items = <<>> THEN base
    ELSE LET log == Head(items)
             next == IF log.log_id \in DOMAIN base
                     THEN [base EXCEPT ![log.log_id].summary = log]
                     ELSE [logId \in DOMAIN base \cup {log.log_id} |->
                              IF logId = log.log_id THEN FreshRecord(log)
                              ELSE base[logId]]
         IN  MergeItems(next, Tail(items))

MergeLogStateKeep(isInitial, prev, items) == MergeItems(prev, items)

MergeLogStateLatestOnly(isInitial, prev, items) == MergeItems(EmptyMap, items)

\* setLogState((prev) => ...) of loadLogs
MergeLogState(isInitial, prev, items) ==
    MergeItems(IF isInitial THEN EmptyMap ELSE prev, items)

ItemIds(items) == [i \in 1..Len(items) |-> items[i].log_id]

MergeLogOrderAppendAll(isInitial, prev, items) ==
    (IF isInitial THEN <<>> ELSE prev) \o ItemIds(items)

MergeLogOrderFirstPageOnly(isInitial, prev, items) ==
    IF isInitial THEN Dedup({}, ItemIds(items)) ELSE prev

\* setLogOrder((prev) => ...) of loadLogs
MergeLogOrder(isInitial, prev, items) ==
    LET baseOrder == IF isInitial THEN <<>> ELSE prev
    IN  baseOrder \o Dedup(Range(baseOrder), ItemIds(items))

----------------------------------------------------------------------------
(* The server's trajectory cache: getDetail(id) answers from a mapping of   *)
(* identifier to a memoized computation.  The "compute or join in-flight"   *)
(* decision is one atomic step per key; the computation settles later, and  *)
(* every caller of that key is answered from the settled entry.             *)

\* workers asking the server for a detail at the same time
MaxCallers == 3
Callers == 1..MaxCallers

\* what a load/parse/bounding-box computation can end in
Failed == "failure"
Answers == {"detail1", "detail2", Failed}

\* an identifier without entry, and one whose computation is in flight
Absent == "absent"
Running == "running"
\* a caller without request, and one not answered yet
Idle == [id |-> NoLog, reply |-> "none"]
Waiting == "waiting"

VARIABLES
    \* the mapping from identifier to its memoized computation
    cacheEntries,
    \* the underlying computations started so far, per identifier
    computations,
    \* the request each caller has out, and its answer
    callers

serverVars == <<cacheEntries, computations, callers>>
allVars == <<vars, serverVars>>

ServerIdle ==
    /\ cacheEntries = [id \in Ids |-> Absent]
    /\ computations = [id \in Ids |-> 0]
    /\ callers = [c \in Callers |-> Idle]

\* a non-atomic check-then-set: a worker that finds no settled value computes
GetOrComputeCheckThenSet(id) ==
    /\ cacheEntries' = [cacheEntries EXCEPT ![id] = Running]
    /\ computations' = [computations EXCEPT ![id] = @ + 1]

\* compute or join in-flight, atomically per key
GetOrCompute(id) ==
    IF cacheEntries[id] = Absent
    THEN /\ cacheEntries' = [cacheEntries EXCEPT ![id] = Running]
         /\ computations' = [computations EXCEPT ![id] = @ + 1]
    ELSE UNCHANGED <<cacheEntries, computations>>

\* a request for id arrives at a worker
getDetail(c, id) ==
    /\ callers[c] = Idle
    /\ callers' = [callers EXCEPT ![c] = [id |-> id, reply |-> Waiting]]
    /\ GetOrCompute(id)
    /\ UNCHANGED vars

\* the computation for id completes, with a result or a failure
ComputeDone(id, answer) ==
    /\ cacheEntries[id] = Running
    /\ cacheEntries' = [cacheEntries EXCEPT ![id] = answer]
    /\ UNCHANGED <<computations, callers, vars>>

\* a caller is answered once the computation it waits for has completed
Respond(c) ==
    /\ callers[c].reply = Waiting
    /\ cacheEntries[callers[c].id] \in Answers
    /\ callers' = [callers EXCEPT ![c].reply = cacheEntries[callers[c].id]]
    /\ UNCHANGED <<cacheEntries, computations, vars>>

\* the worker is free for the next request
Return(c) ==
    /\ callers[c].reply \in Answers
    /\ callers' = [callers EXCEPT ![c] = Idle]
    /\ UNCHANGED <<cacheEntries, computations, vars>>

ServerNext ==
    \/ \E c \in Callers, id \in Ids : getDetail(c, id)
    \/ \E id \in Ids, answer \in Answers : ComputeDone(id, answer)
    \/ \E c \in Callers : Respond(c)
    \/ \E c \in Callers : Return(c)

----------------------------------------------------------------------------
(* Init: App has mounted, its mount effect has called loadLogs(0), and the  *)
(* map has been created at DEFAULT_ZOOM                                     *)

Init ==
    /\ logState = EmptyMap
    /\ logOrder = <<>>
    /\ activeLogs = <<>>
    /\ error = NoError
    /\ isLoadingSummaries = TRUE
    /\ isLoadingMore = FALSE
    /\ totalLogs = NoNumber
    /\ nextOffset = 0
    /\ lastActivatedLog = NoLog
    /\ currentZoom = DEFAULT_ZOOM
    /\ hoveredLogId = NoLog
    /\ isPreviewOpen = FALSE
    /\ previewState = NullPreview
    /\ previewImageUrlRef = NoUrl
    /\ previewRequestIdRef = 0
    /\ mounted = TRUE
    /\ mapZoom = DEFAULT_ZOOM
    /\ mapCenter = "default"
    /\ pageRequests = <<0>>
    /\ detailRequests = [logId \in Ids |-> 0]
    /\ previewRequests = {}
    /\ objectUrls = {}
    /\ revokedUrls = {}
    /\ ServerIdle

----------------------------------------------------------------------------
(* Catalog pages *)

LoadMoreWhileLoading ==
    /\ mounted
    /\ ~isLoadingSummaries
    /\ nextOffset # NoNumber
    /\ pageRequests' = Append(pageRequests, nextOffset)
    /\ IF nextOffset = 0
       THEN isLoadingSummaries' = TRUE /\ error' = NoError /\ UNCHANGED isLoadingMore
       ELSE isLoadingMore' = TRUE /\ UNCHANGED <<isLoadingSummaries, error>>
    /\ UNCHANGED <<logOrder, totalLogs, nextOffset>>
    /\ UNCHANGED <<detailVars, selectVars, viewVars, previewVars, mounted, serverVars>>

LoadMoreUnguarded ==
    /\ mounted
    /\ ~isLoadingSummaries
    /\ ~isLoadingMore
    /\ pageRequests' = Append(pageRequests, nextOffset)
    /\ IF nextOffset = 0
       THEN isLoadingSummaries' = TRUE /\ error' = NoError /\ UNCHANGED isLoadingMore
       ELSE isLoadingMore' = TRUE /\ UNCHANGED <<isLoadingSummaries, error>>
    /\ UNCHANGED <<logOrder, totalLogs, nextOffset>>
    /\ UNCHANGED <<detailVars, selectVars, viewVars, previewVars, mounted, serverVars>>

\* the load-more button's onClick: loadLogs(nextOffset) up to its await
LoadMore ==
    /\ mounted
    /\ ~isLoadingSummaries
    /\ nextOffset # NoNumber
    /\ ~isLoadingMore
    /\ pageRequests' = Append(pageRequests, nextOffset)
    /\ IF nextOffset = 0
       THEN isLoadingSummaries' = TRUE /\ error' = NoError /\ UNCHANGED isLoadingMore
       ELSE isLoadingMore' = TRUE /\ UNCHANGED <<isLoadingSummaries, error>>
    /\ UNCHANGED <<logOrder, totalLogs, nextOffset>>
    /\ UNCHANGED <<detailVars, selectVars, viewVars, previewVars, mounted, serverVars>>

LoadLogsFinallyStuck(isInitial) == UNCHANGED <<isLoadingSummaries, isLoadingMore>>

\* the finally block of loadLogs
LoadLogsFinally(isInitial) ==
    IF isInitial
    THEN isLoadingSummaries' = FALSE /\ UNCHANGED isLoadingMore
    ELSE isLoadingMore' = FALSE /\ UNCHANGED isLoadingSummaries

RemoveAt(s, i) == [k \in 1..(Len(s) - 1) |-> IF k < i THEN s[k] ELSE s[k + 1]]

\* fetchLogs resolves: the try block of loadLogs after its await
LoadLogsResolve(i, items, total, next) ==
    LET isInitial == pageRequests[i] = 0
    IN  /\ i \in 1..Len(pageRequests)
        /\ pageRequests' = RemoveAt(pageRequests, i)
        /\ IF mounted
           THEN /\ totalLogs' = total
                /\ nextOffset' = next
                /\ error' = NoError
                /\ logState' = MergeLogState(isInitial, logState, items)
                /\ logOrder' = MergeLogOrder(isInitial, logOrder, items)
                /\ LoadLogsFinally(isInitial)
           ELSE UNCHANGED <<totalLogs, nextOffset, error, logState, logOrder,
                            isLoadingSummaries, isLoadingMore>>
        /\ UNCHANGED <<detailRequests, selectVars, currentZoom, hoveredLogId,
                       previewVars, mounted, serverVars>>
        /\ FocusAfter(TRUE)

\* fetchLogs rejects: the catch block of loadLogs
LoadLogsReject(i, msg) ==
    LET isInitial == pageRequests[i] = 0
    IN  /\ i \in 1..Len(pageRequests)
        /\ pageRequests' = RemoveAt(pageRequests, i)
        /\ IF mounted
           THEN error' = msg /\ LoadLogsFinally(isInitial)
           ELSE UNCHANGED <<error, isLoadingSummaries, isLoadingMore>>
        /\ UNCHANGED <<logOrder, totalLogs, nextOffset>>
        /\ UNCHANGED <<detailVars, selectVars, viewVars, previewVars, mounted, serverVars>>

----------------------------------------------------------------------------
(* Preview *)

closePreviewNoBump ==
    /\ UNCHANGED previewRequestIdRef
    /\ IF previewImageUrlRef # NoUrl
       THEN /\ objectUrls' = objectUrls \ {previewImageUrlRef}
            /\ revokedUrls' = revokedUrls \cup {previewImageUrlRef}
       ELSE UNCHANGED <<objectUrls, revokedUrls>>
    /\ previewImageUrlRef' = NoUrl
    /\ isPreviewOpen' = FALSE
    /\ previewState' = NullPreview
    /\ UNCHANGED previewRequests

closePreviewKeepSession ==
    /\ previewRequestIdRef' = previewRequestIdRef + 1
    /\ IF previewImageUrlRef # NoUrl
       THEN /\ objectUrls' = Revoke(objectUrls, previewImageUrlRef)
            /\ revokedUrls' = Revoked(revokedUrls, previewImageUrlRef)
       ELSE UNCHANGED <<objectUrls, revokedUrls>>
    /\ previewImageUrlRef' = NoUrl
    /\ isPreviewOpen' = FALSE
    /\ UNCHANGED <<previewState, previewRequests>>

\* closePreview
closePreview ==
    /\ previewRequestIdRef' = previewRequestIdRef + 1
    /\ IF previewImageUrlRef # NoUrl
       THEN /\ objectUrls' = Revoke(objectUrls, previewImageUrlRef)
            /\ revokedUrls' = Revoked(revokedUrls, previewImageUrlRef)
       ELSE UNCHANGED <<objectUrls, revokedUrls>>
    /\ previewImageUrlRef' = NoUrl
    /\ isPreviewOpen' = FALSE
    /\ previewState' = NullPreview
    /\ UNCHANGED previewRequests

\* the preview panel's close button
ClosePreview ==
    /\ mounted
    /\ previewRequestIdRef < MaxRequestId
    /\ closePreview
    /\ UNCHANGED <<pageVars, detailVars, selectVars, viewVars, mounted, serverVars>>

NextRequestIdSame(current) == current

\* the value handlePolylineClick takes as requestId
NextRequestId(current) == current + 1

\* handlePolylineClick up to fetchLogImage: a click on a rendered layer
HandlePolylineClick(logId) ==
    /\ mounted
    /\ shouldRenderTrajectories(currentZoom)
    /\ \E k \in DOMAIN polylineData(activeLogs, logState) :
          polylineData(activeLogs, logState)[k].logId = logId
    /\ previewRequestIdRef < MaxRequestId
    /\ lastActivatedLog' = logId
    /\ isPreviewOpen' = TRUE
    /\ previewRequestIdRef' = NextRequestId(previewRequestIdRef)
    /\ previewState' = PreviewLoading(logId)
    /\ previewRequests' = previewRequests \cup
          {[requestId |-> NextRequestId(previewRequestIdRef), logId |-> logId,
            state |-> "pending", late |-> FALSE]}
    /\ UNCHANGED <<previewImageUrlRef, objectUrls, revokedUrls>>
    /\ UNCHANGED <<pageVars, detailVars, activeLogs, currentZoom, hoveredLogId, mounted, serverVars>>
    /\ FocusAfter(lastActivatedLog' # lastActivatedLog)

IsStaleNever(current, requestId) == FALSE

IsStaleWrongWay(current, requestId) == current < requestId

\* if (previewRequestIdRef.current !== requestId)
IsStale(current, requestId) == current # requestId

\* the promise r settled; late records that previewRequestIdRef had moved on by then
Settle(r, state) ==
    (previewRequests \ {r}) \cup
        {[r EXCEPT !.state = state, !.late = (previewRequestIdRef # r.requestId)]}

\* fetchLogImage resolves with URL.createObjectURL(blob): the .then callback
PreviewFulfil(r) ==
    LET url == r.requestId
    IN  /\ r \in previewRequests
        /\ r.state = "pending"
        /\ previewRequests' = Settle(r, "fulfilled")
        /\ IF IsStale(previewRequestIdRef, r.requestId)
           THEN /\ objectUrls' = Revoke(objectUrls \cup {url}, url)
                /\ revokedUrls' = Revoked(revokedUrls, url)
                /\ UNCHANGED <<previewImageUrlRef, previewState>>
           ELSE /\ IF previewImageUrlRef # NoUrl
                   THEN /\ objectUrls' =
                              Revoke(objectUrls \cup {url}, previewImageUrlRef)
                        /\ revokedUrls' = Revoked(revokedUrls, previewImageUrlRef)
                   ELSE /\ objectUrls' = objectUrls \cup {url}
                        /\ UNCHANGED revokedUrls
                /\ previewImageUrlRef' = url
                /\ IF mounted
                   THEN previewState' = PreviewImage(r.logId, url)
                   ELSE UNCHANGED previewState
        /\ UNCHANGED <<isPreviewOpen, previewRequestIdRef>>
        /\ UNCHANGED <<pageVars, detailVars, selectVars, viewVars, mounted, serverVars>>

\* fetchLogImage rejects: the .catch callback
PreviewReject(r, msg) ==
    /\ r \in previewRequests
    /\ r.state = "pending"
    /\ previewRequests' = Settle(r, "rejected")
    /\ IF IsStale(previewRequestIdRef, r.requestId)
       THEN UNCHANGED <<objectUrls, revokedUrls, previewImageUrlRef, previewState>>
       ELSE /\ IF previewImageUrlRef # NoUrl
               THEN /\ objectUrls' = Revoke(objectUrls, previewImageUrlRef)
                    /\ revokedUrls' = Revoked(revokedUrls, previewImageUrlRef)
               ELSE UNCHANGED <<objectUrls, revokedUrls>>
            /\ previewImageUrlRef' = NoUrl
            /\ IF mounted
               THEN previewState' = PreviewError(r.logId, msg)
               ELSE UNCHANGED previewState
    /\ UNCHANGED <<isPreviewOpen, previewRequestIdRef>>
    /\ UNCHANGED <<pageVars, detailVars, selectVars, viewVars, mounted, serverVars>>

\* App unmounts: the cleanup of useEffect(() => () => {...}, [])
Unmount ==
    /\ mounted
    /\ mounted' = FALSE
    /\ IF previewImageUrlRef # NoUrl
       THEN /\ objectUrls' = Revoke(objectUrls, previewImageUrlRef)
            /\ revokedUrls' = Revoked(revokedUrls, previewImageUrlRef)
       ELSE UNCHANGED <<objectUrls, revokedUrls>>
    /\ previewImageUrlRef' = NoUrl
    /\ UNCHANGED <<isPreviewOpen, previewState, previewRequestIdRef, previewRequests>>
    /\ UNCHANGED <<pageVars, detailVars, selectVars, viewVars, serverVars>>

----------------------------------------------------------------------------
(* Selection: the checkboxes of the log list, shown once the first page    *)
(* load has ended.  Each handler stores a new Set in activeLogs, so the    *)
(* detail fetch effect runs in the same task.                              *)

\* the detail fetch effect after setActiveLogs, then FocusController
AfterSelection ==
    /\ logState' = DetailFetchEffect(activeLogs', logState)
    /\ detailRequests' = DetailFetchIssue(activeLogs', logState, detailRequests)
    /\ FocusAfter(\/ lastActivatedLog' # lastActivatedLog
                  \/ DetailFetchIds(activeLogs', logState) # {})

\* a log's checkbox is listed: logOrder.map with logState.get(logId) defined
Listed(logId) ==
    /\ mounted
    /\ ~isLoadingSummaries
    /\ logId \in Range(logOrder)
    /\ logId \in DOMAIN logState

\* onChange of a log's checkbox, isChecked = true
ToggleOn(logId) ==
    /\ Listed(logId)
    /\ logId \notin Range(activeLogs)
    /\ activeLogs' = SetAdd(activeLogs, logId)
    /\ lastActivatedLog' = logId
    /\ UNCHANGED <<pageVars, currentZoom, hoveredLogId, previewVars, mounted, serverVars>>
    /\ AfterSelection

ToggleOffKeepPreview(logId) ==
    /\ Listed(logId)
    /\ logId \in Range(activeLogs)
    /\ activeLogs' = SeqRemove(activeLogs, logId)
    /\ lastActivatedLog' = IF lastActivatedLog = logId THEN NoLog ELSE lastActivatedLog
    /\ hoveredLogId' = IF hoveredLogId = logId THEN NoLog ELSE hoveredLogId
    /\ UNCHANGED previewVars
    /\ UNCHANGED <<pageVars, currentZoom, mounted, serverVars>>
    /\ AfterSelection

\* onChange of a log's checkbox, isChecked = false
ToggleOff(logId) ==
    /\ Listed(logId)
    /\ logId \in Range(activeLogs)
    /\ previewState.logId = logId => previewRequestIdRef < MaxRequestId
    /\ activeLogs' = SeqRemove(activeLogs, logId)
    /\ lastActivatedLog' = IF lastActivatedLog = logId THEN NoLog ELSE lastActivatedLog
    /\ hoveredLogId' = IF hoveredLogId = logId THEN NoLog ELSE hoveredLogId
    /\ IF previewState.logId = logId THEN closePreview ELSE UNCHANGED previewVars
    /\ UNCHANGED <<pageVars, currentZoom, mounted, serverVars>>
    /\ AfterSelection

\* onChange of the select-all checkbox, isChecked = true
SelectAll ==
    /\ mounted
    /\ ~isLoadingSummaries
    /\ Len(logOrder) > 0
    /\ ~isAllSelected(logOrder, activeLogs)
    /\ activeLogs' = Dedup({}, logOrder)
    /\ UNCHANGED <<lastActivatedLog, pageVars, currentZoom, hoveredLogId,
                   previewVars, mounted, serverVars>>
    /\ AfterSelection

\* onChange of the select-all checkbox, isChecked = false
UnselectAll ==
    /\ mounted
    /\ ~isLoadingSummaries
    /\ isAllSelected(logOrder, activeLogs)
    /\ previewRequestIdRef < MaxRequestId
    /\ activeLogs' = <<>>
    /\ lastActivatedLog' = NoLog
    /\ hoveredLogId' = NoLog
    /\ closePreview
    /\ UNCHANGED <<pageVars, currentZoom, mounted, serverVars>>
    /\ AfterSelection

----------------------------------------------------------------------------
(* Detail fetch completions *)

ResolveUpdaterAll(current, logId, detail) ==
    [id \in DOMAIN current |->
        IF id = logId THEN DetailSuccess(current[id], detail)
        ELSE [current[id] EXCEPT !.loading = FALSE]]

\* setLogState((current) => ...) of .then: if (!state) return current
ResolveUpdater(current, logId, detail) ==
    IF logId \in DOMAIN current
    THEN [current EXCEPT ![logId] = DetailSuccess(@, detail)]
    ELSE current

RejectUpdaterAll(current, logId, msg) ==
    [id \in DOMAIN current |-> DetailFailure(current[id], msg)]

\* setLogState((current) => ...) of .catch: if (!state) return current
RejectUpdater(current, logId, msg) ==
    IF logId \in DOMAIN current
    THEN [current EXCEPT ![logId] = DetailFailure(@, msg)]
    ELSE current

\* fetchLogDetail(logId) resolves: the .then callback
DetailResolve(logId, detail) ==
    /\ detailRequests[logId] > 0
    /\ detailRequests' = [detailRequests EXCEPT ![logId] = @ - 1]
    /\ IF mounted
       THEN logState' = ResolveUpdater(logState, logId, detail)
       ELSE UNCHANGED logState
    /\ UNCHANGED <<pageVars, selectVars, currentZoom, hoveredLogId, previewVars, mounted, serverVars>>
    /\ FocusAfter(logId \in DOMAIN logState)

\* fetchLogDetail(logId) rejects: the .catch callback
DetailReject(logId, msg) ==
    /\ detailRequests[logId] > 0
    /\ detailRequests' = [detailRequests EXCEPT ![logId] = @ - 1]
    /\ IF mounted
       THEN logState' = RejectUpdater(logState, logId, msg)
       ELSE UNCHANGED logState
    /\ UNCHANGED <<pageVars, selectVars, currentZoom, hoveredLogId, previewVars, mounted, serverVars>>
    /\ FocusAfter(logId \in DOMAIN logState)

----------------------------------------------------------------------------
(* Viewport *)

\* the user zooms the map
UserZoom(zoom) ==
    /\ mounted
    /\ zoom # mapZoom
    /\ mapZoom' = zoom
    /\ UNCHANGED <<currentZoom, hoveredLogId, mapCenter>>
    /\ UNCHANGED <<pageVars, detailVars, selectVars, previewVars, mounted, serverVars>>

\* useEffect(..., [shouldRenderTrajectories]): if (!shouldRender) setHoveredLogId(null)
HoverAfterZoom(before, after, hovered) ==
    IF shouldRenderTrajectories(before) # shouldRenderTrajectories(after)
       /\ ~shouldRenderTrajectories(after)
    THEN NoLog
    ELSE hovered

\* handleZoom: setCurrentZoom(target.getZoom()), then the hover effect
ZoomEvent ==
    /\ mounted
    /\ currentZoom # mapZoom
    /\ currentZoom' = mapZoom
    /\ hoveredLogId' = HoverAfterZoom(currentZoom, mapZoom, hoveredLogId)
    /\ UNCHANGED <<mapZoom, mapCenter>>
    /\ UNCHANGED <<pageVars, detailVars, selectVars, previewVars, mounted, serverVars>>

\* a layer of polylineData is on the map
Rendered(logId) ==
    /\ mounted
    /\ shouldRenderTrajectories(currentZoom)
    /\ logId \in Range(LayerIds(activeLogs, logState))

\* mouseover of a layer
MouseOver(logId) ==
    /\ Rendered(logId)
    /\ hoveredLogId # logId
    /\ hoveredLogId' = logId
    /\ UNCHANGED <<currentZoom, mapZoom, mapCenter>>
    /\ UNCHANGED <<pageVars, detailVars, selectVars, previewVars, mounted, serverVars>>

\* mouseout of a layer
MouseOut(logId) ==
    /\ Rendered(logId)
    /\ hoveredLogId = logId
    /\ hoveredLogId' = NoLog
    /\ UNCHANGED <<currentZoom, mapZoom, mapCenter>>
    /\ UNCHANGED <<pageVars, detailVars, selectVars, previewVars, mounted, serverVars>>

----------------------------------------------------------------------------
(* What the server and the network answer *)

\* list items: DrivingLogListItem
Items == [log_id : Ids, num_points : {1}]

\* pages of at most MaxPageLen items, in any order, repeats included
Pages == UNION {[1..n -> Items] : n \in 0..MaxPageLen}

\* next_offset: null or a cursor past the page just sent
Cursors == {NoNumber} \cup 1..MaxOffset

Totals == 0..MaxTotal

\* details the server answers fetchLogDetail with
Details ==
    {Detail(<<"p">>, MinZoom), Detail(<<"q", "p">>, NoBounds), Detail(<<>>, NoBounds)}

PageNextOf(pages, totals, cursors, failures) ==
    \/ LoadMore
    \/ \E i \in 1..Len(pageRequests), items \in pages, total \in totals, next \in cursors :
          LoadLogsResolve(i, items, total, next)
    \/ \E i \in 1..Len(pageRequests), msg \in failures : LoadLogsReject(i, msg)

PageNext == PageNextOf(Pages, Totals, Cursors, Failures)

SelectNext ==
    \/ \E logId \in Ids : ToggleOn(logId)
    \/ \E logId \in Ids : ToggleOff(logId)
    \/ SelectAll
    \/ UnselectAll

DetailNextOf(details, failures) ==
    \/ \E logId \in Ids, detail \in details : DetailResolve(logId, detail)
    \/ \E logId \in Ids, msg \in failures : DetailReject(logId, msg)

DetailNext == DetailNextOf(Details, Failures)

PreviewNextOf(failures) ==
    \/ \E logId \in Ids : HandlePolylineClick(logId)
    \/ ClosePreview
    \/ \E r \in previewRequests : PreviewFulfil(r)
    \/ \E r \in previewRequests, msg \in failures : PreviewReject(r, msg)

PreviewNext == PreviewNextOf(Failures)

ZoomNext ==
    \/ \E zoom \in ZoomLevels : UserZoom(zoom)
    \/ ZoomEvent

ViewNext ==
    \/ ZoomNext
    \/ \E logId \in Ids : MouseOver(logId)
    \/ \E logId \in Ids : MouseOut(logId)

Next == PageNext \/ SelectNext \/ DetailNext \/ PreviewNext \/ ViewNext \/ Unmount

Spec == Init /\ [][Next]_vars

\* the server on its own, the client at rest
SpecServer == Init /\ [][ServerNext]_allVars

----------------------------------------------------------------------------
(* The session once the catalog is on screen: the first page has arrived   *)
(* with a and b and no further page, nothing is selected yet.              *)

FirstPage == <<[log_id |-> "a", num_points |-> 1], [log_id |-> "b", num_points |-> 1]>>

InitLoaded ==
    /\ logState = MergeLogState(TRUE, EmptyMap, FirstPage)
    /\ logOrder = MergeLogOrder(TRUE, <<>>, FirstPage)
    /\ activeLogs = <<>>
    /\ error = NoError
    /\ isLoadingSummaries = FALSE
    /\ isLoadingMore = FALSE
    /\ totalLogs = Len(FirstPage)
    /\ nextOffset = NoNumber
    /\ lastActivatedLog = NoLog
    /\ currentZoom = DEFAULT_ZOOM
    /\ hoveredLogId = NoLog
    /\ isPreviewOpen = FALSE
    /\ previewState = NullPreview
    /\ previewImageUrlRef = NoUrl
    /\ previewRequestIdRef = 0
    /\ mounted = TRUE
    /\ mapZoom = DEFAULT_ZOOM
    /\ mapCenter = "default"
    /\ pageRequests = <<>>
    /\ detailRequests = [logId \in Ids |-> 0]
    /\ previewRequests = {}
    /\ objectUrls = {}
    /\ revokedUrls = {}
    /\ ServerIdle

OneFailure == {"Failed to fetch"}

\* the preview orchestrator with the selection and detail fetches that feed it
\* (a log's detail has points or none), and teardown
PreviewSessionNext ==
    \/ SelectNext
    \/ DetailNextOf({Detail(<<"p">>, MinZoom), Detail(<<>>, NoBounds)}, OneFailure)
    \/ PreviewNext
    \/ Unmount

SpecPreview == InitLoaded /\ [][PreviewSessionNext]_vars

\* catalog pages, selection and detail fetches, from mount; the server reports
\* a catalog of MaxTotal logs
CatalogNext == PageNextOf(Pages, {MaxTotal}, Cursors, Failures) \/ SelectNext \/ DetailNext

SpecCatalog == Init /\ [][CatalogNext]_vars

\* the promise of fetchLogDetail(logId) settles, either way
DetailCompletes(logId) ==
    \/ \E detail \in Details : DetailResolve(logId, detail)
    \/ \E msg \in Failures : DetailReject(logId, msg)

\* the same session when the network answers every fetchLogDetail in the end
SpecCatalogFair ==
    SpecCatalog /\ \A logId \in Ids : WF_vars(DetailCompletes(logId))

\* the list being built: any page in answer to any request (identifiers
\* repeated within a page and across pages), the cursor null or at 1, with
\* selection and one detail per log
ListingNext ==
    \/ PageNextOf(Pages, {MaxTotal}, {NoNumber, 1}, OneFailure)
    \/ SelectNext
    \/ DetailNextOf({Detail(<<"p">>, MinZoom)}, OneFailure)

SpecListing == Init /\ [][ListingNext]_vars

\* catalog pages, selection, detail fetches and previews from mount, the server
\* answering one catalog and one detail per log
AppNext ==
    \/ PageNextOf({FirstPage}, {Len(FirstPage)},
                  {NoNumber, 1}, OneFailure)
    \/ SelectNext
    \/ DetailNextOf({Detail(<<"p">>, MinZoom)}, OneFailure)
    \/ PreviewNextOf(OneFailure)

SpecApp == Init /\ [][AppNext]_vars

----------------------------------------------------------------------------
(* The map once the catalog is on screen: selection, detail fetches (a     *)
(* detail with bounds, or with points only), zooming and hovering          *)

ViewSessionNext ==
    \/ SelectNext
    \/ DetailNextOf({Detail(<<"p">>, MinZoom), Detail(<<"q", "p">>, NoBounds)}, OneFailure)
    \/ ViewNext

SpecView == InitLoaded /\ [][ViewSessionNext]_vars

----------------------------------------------------------------------------
(* Focus on activation: details whose bounds fit at a zoom below, at or    *)
(* above the threshold, or that have no bounds, with the user zooming       *)

\* what map.getBoundsZoom answers for the bounds of a detail
BoundsZooms == MinZoom..(MaxZoom + 1)

FocusDetails ==
    {Detail(<<"p">>, zoom) : zoom \in BoundsZooms} \cup {Detail(<<"q", "p">>, NoBounds)}

FocusSessionNext ==
    \/ SelectNext
    \/ DetailNextOf(FocusDetails, OneFailure)
    \/ ZoomNext

SpecFocus == InitLoaded /\ [][FocusSessionNext]_vars

----------------------------------------------------------------------------
(* A server that honours the listPage contract over a catalog without      *)
(* duplicates                                                              *)

Catalog == <<[log_id |-> "b", num_points |-> 1], [log_id |-> "a", num_points |-> 1]>>

Min(x, y) == IF x <= y THEN x ELSE y

\* listPage(offset, limit) -> {items, total, next_offset}; next_offset is null
\* once offset + len(items) >= total
listPage(offset, limit) ==
    LET total == Len(Catalog)
        items == SubSeq(Catalog, offset + 1, Min(offset + limit, total))
    IN  [items |-> items,
         total |-> total,
         next_offset |-> IF offset + Len(items) >= total THEN NoNumber
                         ELSE offset + Len(items)]

\* fetchLogs({ limit: LOGS_PAGE_SIZE, offset }) answered by that server
ContractResolve(i) ==
    /\ i \in 1..Len(pageRequests)
    /\ LET page == listPage(pageRequests[i], PageLimit)
       IN  LoadLogsResolve(i, page.items, page.total, page.next_offset)

ContractNext ==
    \/ LoadMore
    \/ \E i \in 1..Len(pageRequests) : ContractResolve(i)
    \/ \E i \in 1..Len(pageRequests), msg \in OneFailure : LoadLogsReject(i, msg)
    \/ SelectNext
    \/ DetailNextOf({Detail(<<"p">>, MinZoom)}, OneFailure)

SpecContract == Init /\ [][ContractNext]_vars

----------------------------------------------------------------------------
(* The merge of an offset = 0 response, applied to any store: loadLogs(0)   *)
(* is pending and prev of its updaters is a store of earlier pages         *)

\* the shapes a record takes: fresh, fetching its detail, with detail, failed
RecordShapes(logId) ==
    LET fresh == FreshRecord([log_id |-> logId, num_points |-> 1])
    IN  {fresh,
         [fresh EXCEPT !.loading = TRUE],
         [fresh EXCEPT !.detail = Detail(<<"p">>, MinZoom)],
         [fresh EXCEPT !.error = "Failed to fetch"]}

StoresBefore ==
    {st \in UNION {[S -> UNION {RecordShapes(logId) : logId \in Ids}] : S \in SUBSET Ids} :
        \A logId \in DOMAIN st : st[logId] \in RecordShapes(logId)}

OrdersOf(S) ==
    {o \in UNION {[1..n -> S] : n \in 0..Cardinality(Ids)} : NoDup(o) /\ Range(o) = S}

\* list items whose summaries differ from the stored ones
ItemsAnew == [log_id : Ids, num_points : {1, 2}]

PagesAnew == UNION {[1..n -> ItemsAnew] : n \in 0..MaxPageLen}

InitReset ==
    /\ \E st \in StoresBefore :
          /\ logState = st
          /\ logOrder \in OrdersOf(DOMAIN st)
          /\ detailRequests =
                 [logId \in Ids |->
                     IF logId \in DOMAIN st /\ st[logId].loading THEN 1 ELSE 0]
    /\ activeLogs = <<>>
    /\ error = NoError
    /\ isLoadingSummaries = TRUE
    /\ isLoadingMore = FALSE
    /\ totalLogs \in Totals
    /\ nextOffset = 0
    /\ lastActivatedLog = NoLog
    /\ currentZoom = DEFAULT_ZOOM
    /\ hoveredLogId = NoLog
    /\ isPreviewOpen = FALSE
    /\ previewState = NullPreview
    /\ previewImageUrlRef = NoUrl
    /\ previewRequestIdRef = 0
    /\ mounted = TRUE
    /\ mapZoom = DEFAULT_ZOOM
    /\ mapCenter = "default"
    /\ pageRequests = <<0>>
    /\ previewRequests = {}
    /\ objectUrls = {}
    /\ revokedUrls = {}
    /\ ServerIdle

ResetNext ==
    \E i \in 1..Len(pageRequests), items \in PagesAnew, total \in Totals, next \in Cursors :
        LoadLogsResolve(i, items, total, next)

SpecReset == InitReset /\ [][ResetNext]_vars

----------------------------------------------------------------------------
(* A catalog whose summaries change after the first page: the first page   *)
(* lists b, or a and b, and later pages bring any items, those already     *)
(* listed included, with their new summaries                               *)

FirstPages == {FirstPage, SubSeq(FirstPage, 2, 2)}

LaterPages == UNION {[1..n -> [log_id : Ids, num_points : {2}]] : n \in 0..MaxPageLen}

RefreshNext ==
    \/ LoadMore
    \/ \E i \in 1..Len(pageRequests), next \in {NoNumber, 1} :
          \E items \in IF pageRequests[i] = 0 THEN FirstPages ELSE LaterPages :
              LoadLogsResolve(i, items, MaxTotal, next)
    \/ \E i \in 1..Len(pageRequests), msg \in OneFailure : LoadLogsReject(i, msg)
    \/ SelectNext
    \/ DetailNextOf({Detail(<<"p">>, MinZoom)}, OneFailure)

SpecRefresh == Init /\ [][RefreshNext]_vars

----------------------------------------------------------------------------
(* Properties of the preview orchestrator *)

\* the steps that run closePreview: the close button, unchecking the previewed
\* log, and unselect-all
ExplicitClose ==
    \/ ClosePreview
    \/ UnselectAll
    \/ \E logId \in Ids : previewState.logId = logId /\ ToggleOff(logId)

Activation == \E logId \in Ids : HandlePolylineClick(logId)

\* the request r, pending before the step, settles in it
SettlesIn(r) ==
    /\ r \in previewRequests
    /\ r.state = "pending"
    /\ r \notin previewRequests'

FulfilsIn(r) ==
    /\ SettlesIn(r)
    /\ \E t \in previewRequests' : t.requestId = r.requestId /\ t.state = "fulfilled"

\* r settled when the counter had already moved past it
ArrivedStale(r) == r.state # "pending" /\ r.late

C1_StaleStep ==
    \A r \in previewRequests :
        SettlesIn(r) /\ previewRequestIdRef # r.requestId =>
            /\ previewState' = previewState
            /\ isPreviewOpen' = isPreviewOpen
            /\ previewImageUrlRef' = previewImageUrlRef
            /\ previewRequestIdRef' = previewRequestIdRef
            /\ FulfilsIn(r) =>
                  /\ r.requestId \in revokedUrls'
                  /\ r.requestId \notin objectUrls'

C1_StaleNeverStored ==
    \A r \in previewRequests :
        ArrivedStale(r) =>
            /\ previewState.imageUrl # r.requestId
            /\ previewImageUrlRef # r.requestId
            /\ r.requestId \notin objectUrls
            /\ r.state = "fulfilled" => r.requestId \in revokedUrls

\* C1: a preview response that arrives when the counter differs from the value
\* taken at its activation changes neither the session nor the held image; the
\* blob URL it carries is revoked in that step and is never the session's image.
C1_StaleResponseDiscarded == [][C1_StaleStep]_vars /\ []C1_StaleNeverStored

C1_Witness ==
    \E r \in previewRequests :
        /\ ArrivedStale(r)
        /\ r.state = "fulfilled"
        /\ previewState.loading
        /\ previewImageUrlRef # NoUrl

\* C2: preview activated for A and then for B before A's response, nothing
\* activated or closed since, App mounted, both responses in (either order):
\* the session shows B with B's outcome, and A's blob URL is revoked and is not
\* the session's image.
C2_PreviewRace ==
    \A rA, rB \in previewRequests :
        /\ mounted
        /\ rB.requestId = rA.requestId + 1
        /\ rB.requestId = previewRequestIdRef
        /\ ArrivedStale(rA)
        /\ rB.state # "pending"
        => /\ previewState.logId = rB.logId
           /\ ~previewState.loading
           /\ rB.state = "fulfilled" =>
                 /\ previewState = PreviewImage(rB.logId, rB.requestId)
                 /\ previewImageUrlRef = rB.requestId
                 /\ objectUrls = {rB.requestId}
           /\ rB.state = "rejected" =>
                 /\ previewState.error \in Failures
                 /\ previewState.imageUrl = NoUrl
                 /\ previewImageUrlRef = NoUrl
                 /\ objectUrls = {}
           /\ rA.state = "fulfilled" =>
                 /\ rA.requestId \in revokedUrls
                 /\ previewState.imageUrl # rA.requestId

C2_Witness ==
    \E rA, rB \in previewRequests :
        /\ mounted
        /\ rA.logId = "a" /\ rB.logId = "b"
        /\ rB.requestId = rA.requestId + 1
        /\ rB.requestId = previewRequestIdRef
        /\ rA.state = "fulfilled" /\ rB.state = "fulfilled"
        /\ rA.late /\ ~rB.late
        /\ rA.requestId \in revokedUrls

C3_CloseStep ==
    ExplicitClose =>
        /\ previewRequestIdRef' = previewRequestIdRef + 1
        /\ previewState' = NullPreview
        /\ previewImageUrlRef' = NoUrl
        /\ previewImageUrlRef # NoUrl =>
              /\ previewImageUrlRef \in revokedUrls'
              /\ previewImageUrlRef \notin objectUrls'

C3_StaysEmpty ==
    previewState = NullPreview /\ previewState' # NullPreview => Activation

C3_EmptyHoldsNothing ==
    previewState = NullPreview =>
        /\ previewImageUrlRef = NoUrl
        /\ objectUrls = {}
        /\ \A r \in previewRequests : r.requestId # previewRequestIdRef

\* C3: an explicit close increments the counter, revokes the held blob URL and
\* empties the session; the session then stays empty, holding no URL, until the
\* next activation, and every URL of a response arriving meanwhile is revoked.
C3_CloseInvalidation ==
    [][C3_CloseStep /\ C3_StaysEmpty]_vars /\ []C3_EmptyHoldsNothing

C3_Witness ==
    \E r \in previewRequests :
        /\ previewState = NullPreview
        /\ r.state = "fulfilled"
        /\ r.late
        /\ previewRequestIdRef = r.requestId + 1
        /\ r.requestId \in revokedUrls

C4_OnlyHeldIsLive ==
    objectUrls = IF previewImageUrlRef = NoUrl THEN {} ELSE {previewImageUrlRef}

C4_AdoptStep ==
    previewImageUrlRef # NoUrl /\ previewImageUrlRef' # previewImageUrlRef =>
        /\ previewImageUrlRef \in revokedUrls'
        /\ previewImageUrlRef \notin objectUrls'

\* C4: at most one blob URL is created and not revoked, and it is the one in
\* previewImageUrlRef; a URL leaves previewImageUrlRef only revoked.
C4_SingleOwnedResource == []C4_OnlyHeldIsLive /\ [][C4_AdoptStep]_vars

C4_Witness ==
    \E r \in previewRequests :
        /\ r.state = "fulfilled"
        /\ ~r.late
        /\ r.requestId \in revokedUrls
        /\ previewImageUrlRef \notin {NoUrl, r.requestId}
        /\ previewState.imageUrl = previewImageUrlRef

\* C5: once App is unmounted no blob URL remains unrevoked, also when a preview
\* response arrives after the unmount.
C5_NoResourceAfterTeardown == ~mounted => objectUrls = {}

C6_CounterStep ==
    previewRequestIdRef' =
        IF Activation \/ ExplicitClose
        THEN previewRequestIdRef + 1
        ELSE previewRequestIdRef

C6_DistinctSequenceValues ==
    /\ \A r, t \in previewRequests : r.requestId = t.requestId => r = t
    /\ \A r \in previewRequests : r.requestId \in 1..previewRequestIdRef

\* C6: previewRequestIdRef grows by one on every activation and every explicit
\* close and is left alone by every other step, so no two activations share a
\* sequence value.
C6_MonotonicCounter == [][C6_CounterStep]_vars /\ []C6_DistinctSequenceValues

C6_Witness ==
    /\ previewRequestIdRef = MaxRequestId
    /\ Cardinality(previewRequests) = 2
    /\ previewState = NullPreview
    /\ \E logId \in DOMAIN logState : logState[logId].loading

----------------------------------------------------------------------------
(* Properties of the detail fetch orchestrator *)

\* a fetchLogDetail(logId) is issued in the step
IssuesFetch(logId) == detailRequests'[logId] > detailRequests[logId]

C7_AtMostOneInFlight == \A logId \in Ids : detailRequests[logId] <= 1

C7_NoFetchWhileLoading ==
    \A logId \in DOMAIN logState : logState[logId].loading => ~IssuesFetch(logId)

\* C7: at most one detail fetch per identifier is in flight, and no step issues
\* a fetch for an identifier whose record has loading = true.
C7_DetailDedup == []C7_AtMostOneInFlight /\ [][C7_NoFetchWhileLoading]_vars

C7_Witness ==
    \E logId \in DOMAIN logState :
        /\ logState[logId].loading
        /\ detailRequests[logId] = 1
        /\ logId \notin Range(activeLogs)
        /\ activeLogs # <<>>

C8_OwnActivationStep ==
    \A logId \in Ids :
        IssuesFetch(logId) =>
            logId \notin Range(activeLogs) /\ logId \in Range(activeLogs')

\* C8: a detail fetch for an identifier is issued only in the step that newly
\* activates that identifier; a failed fetch is not issued again because some
\* other identifier is activated or deactivated.
C8_FetchOnlyOnOwnActivation == [][C8_OwnActivationStep]_vars

C9_DetailStep ==
    \A logId \in DOMAIN logState :
        logState[logId].detail.present =>
            /\ logId \in DOMAIN logState'
            /\ logState'[logId].detail = logState[logId].detail
            /\ ~IssuesFetch(logId)
            /\ detailRequests[logId] = 0

\* C9: once a record has its detail, no step clears or replaces it and no step
\* issues a detail fetch for that identifier.
C9_DetailPopulatedOnce == [][C9_DetailStep]_vars

C9_Witness ==
    \E logId \in DOMAIN logState :
        /\ logState[logId].detail.present
        /\ logId \notin Range(activeLogs)
        /\ Len(logOrder) = Cardinality(Ids)
        /\ nextOffset # NoNumber

C10_CompletionStep ==
    /\ \A logId \in DOMAIN logState, detail \in Details :
          DetailResolve(logId, detail) =>
              logState'[logId] =
                  [summary |-> logState[logId].summary, detail |-> detail,
                   loading |-> FALSE, error |-> NoError]
    /\ \A logId \in DOMAIN logState, msg \in Failures :
          DetailReject(logId, msg) =>
              logState'[logId] =
                  [summary |-> logState[logId].summary, detail |-> NoDetail,
                   loading |-> FALSE, error |-> msg]

\* C10: a detail fetch that succeeds leaves its record with the fetched detail,
\* loading = false and no error; one that fails leaves it with loading = false,
\* the failure's message as error and no detail.
C10_DetailCompletion == [][C10_CompletionStep]_vars

C10_Witness ==
    \E ok, ko \in DOMAIN logState :
        /\ logState[ok].detail.present /\ logState[ok].error = NoError
        /\ ~logState[ok].loading
        /\ ~logState[ko].detail.present /\ logState[ko].error \in Failures
        /\ ~logState[ko].loading

\* logId leaves the selection in the step
Deactivates(logId) == logId \in Range(activeLogs) /\ logId \notin Range(activeLogs')

C11_DeactivationStep ==
    \A logId \in DOMAIN logState :
        Deactivates(logId) =>
            /\ logState'[logId] = logState[logId]
            /\ detailRequests'[logId] = detailRequests[logId]

C11_LateMergeStep ==
    \A logId \in DOMAIN logState :
        logId \notin Range(activeLogs) =>
            /\ \A detail \in Details :
                  DetailResolve(logId, detail) =>
                      logState'[logId] = DetailSuccess(logState[logId], detail)
            /\ \A msg \in Failures :
                  DetailReject(logId, msg) =>
                      logState'[logId] = DetailFailure(logState[logId], msg)

\* C11: a step that removes an identifier from the selection changes no field
\* of its record and leaves its pending detail fetch pending; the response of
\* a fetch whose identifier is no longer selected is merged into the record as
\* any other response is.
C11_DeactivationKeepsFetch == [][C11_DeactivationStep /\ C11_LateMergeStep]_vars

C11_Witness ==
    \E logId \in DOMAIN logState :
        /\ activeLogs = <<>>
        /\ lastActivatedLog = NoLog
        /\ logState[logId].loading
        /\ detailRequests[logId] = 1

\* what a settled fetchLogDetail hands to its callback
Outcomes ==
    [ok : {TRUE}, detail : Details, msg : {NoError}] \cup
    [ok : {FALSE}, detail : {NoDetail}, msg : Failures]

\* the record store after the callback of a settled fetchLogDetail(logId)
Completed(ls, logId, o) ==
    IF o.ok THEN ResolveUpdater(ls, logId, o.detail) ELSE RejectUpdater(ls, logId, o.msg)

C12_OneFetchEach ==
    activeLogs' # activeLogs =>
        \A logId \in Ids :
            detailRequests'[logId] - detailRequests[logId] =
                IF /\ logId \in Range(activeLogs')
                   /\ logId \in DOMAIN logState
                   /\ ~logState[logId].detail.present
                   /\ ~logState[logId].loading
                THEN 1 ELSE 0

C12_OwnRecordOnly ==
    \A logId \in Ids :
        detailRequests'[logId] < detailRequests[logId] =>
            /\ DOMAIN logState' = DOMAIN logState
            /\ \A other \in DOMAIN logState \ {logId} :
                  logState'[other] = logState[other]
            /\ \E o \in Outcomes : logState' = Completed(logState, logId, o)

C12_OrderIndependent ==
    \A x, y \in Ids :
        x # y /\ detailRequests[x] > 0 /\ detailRequests[y] > 0 =>
            \A ox, oy \in Outcomes :
                Completed(Completed(logState, x, ox), y, oy) =
                    Completed(Completed(logState, y, oy), x, ox)

\* C12: a step that changes the selection issues exactly one detail fetch for
\* each selected identifier whose record has neither detail nor loading = true
\* and none for any other; a completion changes only its own identifier's
\* record; and with two fetches in flight the store after both completions is
\* the same whichever completes first.
C12_ConcurrentActivation ==
    [][C12_OneFetchEach /\ C12_OwnRecordOnly]_vars /\ []C12_OrderIndependent

C12_Witness ==
    \E x, y \in DOMAIN logState :
        /\ x # y
        /\ activeLogs = logOrder
        /\ lastActivatedLog = NoLog
        /\ logState[x].detail.present
        /\ logState[y].loading /\ detailRequests[y] = 1

----------------------------------------------------------------------------
(* Properties of the pagination controller *)

\* the position of the first occurrence of logId in the page
FirstAt(items, logId) ==
    CHOOSE k \in 1..Len(items) :
        /\ items[k].log_id = logId
        /\ \A j \in 1..(k - 1) : items[j].log_id # logId

IsPrefix(s, t) == Len(s) <= Len(t) /\ SubSeq(t, 1, Len(s)) = s

\* the step is the arrival of the page `items` in answer to request i
MergesPage(i, items) == LoadLogsResolve(i, items, totalLogs', nextOffset')

C13_NoDuplicate == NoDup(logOrder)

\* every step keeps the identifiers already listed where they are
C13_KeepsPlaces == IsPrefix(logOrder, logOrder')

\* a merged page adds the identifiers it brings for the first time, and only
\* those, after the ones already listed, in the order of their first occurrence
C13_MergeStep ==
    Len(pageRequests') < Len(pageRequests) =>
        \A i \in 1..Len(pageRequests), items \in Pages :
            mounted /\ MergesPage(i, items) =>
                /\ Range(logOrder') = Range(logOrder) \cup Range(ItemIds(items))
                /\ \A m, n \in (Len(logOrder) + 1)..Len(logOrder') :
                      m < n =>
                          FirstAt(items, logOrder'[m]) < FirstAt(items, logOrder'[n])

\* C13: the merged list never holds an identifier twice, and identifiers stand
\* in the order in which pages first brought them, whatever pages arrive
\* (identifiers repeated within a page or across pages included).
C13_MergedListFirstSeen ==
    []C13_NoDuplicate /\ [][C13_KeepsPlaces /\ C13_MergeStep]_vars

C13_Witness ==
    /\ logOrder = <<"b", "a">>
    /\ logState["b"].detail.present
    /\ ~logState["a"].detail.present /\ logState["a"].error = NoError
    /\ nextOffset = NoNumber
    /\ pageRequests = <<>>

C14_ServerOrderSoFar == IsPrefix(logOrder, ItemIds(Catalog))

C14_Complete ==
    nextOffset = NoNumber =>
        /\ logOrder = ItemIds(Catalog)
        /\ DOMAIN logState = Range(ItemIds(Catalog))
        /\ totalLogs = Len(Catalog)
        /\ pageRequests = <<>>

C14_NoRequestAfterNull == nextOffset = NoNumber => pageRequests' = pageRequests

\* C14: with a server that answers listPage over a duplicate-free catalog, the
\* merged list is at every moment a prefix of the catalog in server order;
\* when the cursor is null the merged list is the catalog, total is its size
\* and no page request is pending, and from then on no step issues one.
C14_FollowsCursorToCatalog ==
    [](C14_ServerOrderSoFar /\ C14_Complete) /\ [][C14_NoRequestAfterNull]_vars

C14_Witness ==
    /\ nextOffset = NoNumber
    /\ Len(Catalog) > PageLimit
    /\ logOrder = ItemIds(Catalog)
    /\ totalLogs = Len(Catalog)
    /\ activeLogs = logOrder

\* the position of the last occurrence of logId in the page
LastAt(items, logId) ==
    CHOOSE k \in 1..Len(items) :
        /\ items[k].log_id = logId
        /\ \A j \in (k + 1)..Len(items) : items[j].log_id # logId

C15_ResetStep ==
    \A i \in 1..Len(pageRequests), items \in PagesAnew :
        mounted /\ pageRequests[i] = 0 /\ MergesPage(i, items) =>
            /\ Range(logOrder') = Range(ItemIds(items))
            /\ NoDup(logOrder')
            /\ \A m, n \in 1..Len(logOrder') :
                  m < n => FirstAt(items, logOrder'[m]) < FirstAt(items, logOrder'[n])
            /\ DOMAIN logState' = Range(ItemIds(items))
            /\ \A logId \in DOMAIN logState' :
                  logState'[logId] = FreshRecord(items[LastAt(items, logId)])

\* C15: merging the response to a page request with offset = 0 leaves the
\* merged list equal to that page's identifiers, each once, in page order, and
\* the record store with exactly one fresh record for each of them, whatever
\* the list and the store held before.
C15_InitialPageResets == [][C15_ResetStep]_vars

C15_Witness ==
    /\ pageRequests = <<>>
    /\ logOrder = <<"b">>
    /\ DOMAIN logState = {"b"}
    /\ logState["b"].summary.num_points = 2
    /\ detailRequests["a"] = 1 /\ detailRequests["b"] = 1

C16_RefreshStep ==
    Len(pageRequests') < Len(pageRequests) =>
        \A i \in 1..Len(pageRequests), items \in LaterPages :
            mounted /\ pageRequests[i] > 0 /\ MergesPage(i, items) =>
                /\ IsPrefix(logOrder, logOrder')
                /\ NoDup(logOrder')
                /\ Range(ItemIds(items)) \subseteq Range(logOrder) => logOrder' = logOrder
                /\ \A logId \in Range(ItemIds(items)) \cap Range(logOrder) :
                      /\ logId \in DOMAIN logState
                      /\ logState'[logId] =
                             [summary |-> items[LastAt(items, logId)],
                              detail |-> logState[logId].detail,
                              loading |-> logState[logId].loading,
                              error |-> logState[logId].error]

\* C16: when a page with offset > 0 brings an identifier that is already in
\* the merged list, the identifier stays where it is and is not listed again,
\* its record takes the new summary and keeps its detail, loading and error;
\* a page that brings only listed identifiers leaves the list as it is.
C16_RepeatedIdentifierRefreshed == [][C16_RefreshStep]_vars

C16_Witness ==
    /\ logOrder = <<"b", "a">>
    /\ logState["b"].summary.num_points = 2
    /\ logState["b"].detail.present
    /\ logState["a"].loading
    /\ pageRequests = <<>>

C17_AtMostOneOutstanding ==
    /\ Len(pageRequests) <= 1
    /\ pageRequests # <<>> => isLoadingSummaries \/ isLoadingMore

C17_LoadMoreIsNoOp == pageRequests # <<>> => ~ENABLED LoadMore

C17_NoSecondRequest == pageRequests # <<>> => Len(pageRequests') <= Len(pageRequests)

\* C17: at most one page request is outstanding; while one is (the initial
\* one or a later one) the load-more handler does nothing, and no step issues
\* another page request.
C17_SinglePageRequest ==
    [](C17_AtMostOneOutstanding /\ C17_LoadMoreIsNoOp) /\ [][C17_NoSecondRequest]_vars

C17_Witness ==
    /\ pageRequests = <<1>>
    /\ isLoadingMore
    /\ ~isLoadingSummaries
    /\ nextOffset = 1
    /\ activeLogs # <<>>

C18_FailureStep ==
    \A i \in 1..Len(pageRequests), msg \in Failures :
        mounted /\ LoadLogsReject(i, msg) =>
            /\ UNCHANGED <<logOrder, logState, totalLogs, nextOffset, activeLogs>>
            /\ error' = msg
            /\ ~isLoadingSummaries' /\ ~isLoadingMore'
            /\ pageRequests' = <<>>
            /\ nextOffset' = pageRequests[i]

\* the request itself changes none of them either
C18_RequestStep ==
    Len(pageRequests') > Len(pageRequests) =>
        UNCHANGED <<logOrder, logState, totalLogs, nextOffset, activeLogs>>

\* C18: a page request and its failure leave the merged list, every record,
\* the total, the cursor and the selection as they were; the failure stores
\* its message as the catalog error and clears the loading flag, with the
\* cursor still at the failed page's offset, so that page can be asked again.
C18_FailedPageLoad == [][C18_FailureStep /\ C18_RequestStep]_vars

C18_Witness ==
    /\ error \in Failures
    /\ pageRequests = <<>>
    /\ ~isLoadingMore /\ ~isLoadingSummaries
    /\ nextOffset = 1
    /\ Len(logOrder) = 2
    /\ activeLogs = <<"b">>
    /\ logState["b"].detail.present

----------------------------------------------------------------------------
(* Properties of the selection *)

\* the identifiers known to the client
Known == Range(logOrder) \cap DOMAIN logState

\* C19: every selected identifier is in the merged list and has a record, in
\* every state reached by toggles, select-all, unselect-all, page loads and
\* page failures.
C19_SelectionIsKnown == Range(activeLogs) \subseteq Known

C19_Witness ==
    /\ Len(activeLogs) = 2
    /\ error \in Failures
    /\ isLoadingMore
    /\ pageRequests = <<1>>

----------------------------------------------------------------------------
(* Properties of the viewport gate *)

BelowThreshold(zoom) == zoom < DISPLAY_ZOOM_THRESHOLD

C20_Gated ==
    BelowThreshold(currentZoom) =>
        /\ \A logId \in Ids : ~Rendered(logId)
        /\ hoveredLogId = NoLog
        /\ \A logId \in Ids : ~ENABLED MouseOver(logId)

C20_HoverStep ==
    /\ BelowThreshold(currentZoom') /\ ~BelowThreshold(currentZoom) =>
          hoveredLogId' = NoLog
    /\ hoveredLogId' \notin {NoLog, hoveredLogId} =>
          ~BelowThreshold(currentZoom) /\ ~BelowThreshold(currentZoom')

\* C20: while currentZoom is below DISPLAY_ZOOM_THRESHOLD no layer is rendered,
\* no identifier is hovered and no mouseover can set one, whatever is
\* selected; the step that takes currentZoom below the threshold leaves no
\* identifier hovered, and an identifier becomes hovered only at or above it.
C20_RenderGating == []C20_Gated /\ [][C20_HoverStep]_vars

C20_Witness ==
    /\ BelowThreshold(currentZoom)
    /\ Len(LayerIds(activeLogs, logState)) = 2
    /\ lastActivatedLog # NoLog
    /\ hoveredLogId = NoLog

\* the larger of zoom and the threshold
Floored(zoom) == IF zoom < DISPLAY_ZOOM_THRESHOLD THEN DISPLAY_ZOOM_THRESHOLD ELSE zoom

\* the detail of lastActivatedLog has points after the step, and the step is
\* the activation or the arrival of that detail
FocusDue ==
    /\ mounted
    /\ lastActivatedLog' # NoLog
    /\ HasPoints(logState', lastActivatedLog')
    /\ \/ lastActivatedLog' # lastActivatedLog
       \/ ~HasPoints(logState, lastActivatedLog')

C21_FocusStep ==
    FocusDue =>
        LET detail == logState'[lastActivatedLog'].detail
        IN  /\ mapZoom' = IF detail.boundsZoom # NoBounds
                          THEN Floored(detail.boundsZoom)
                          ELSE Floored(mapZoom)
            /\ mapZoom' >= DISPLAY_ZOOM_THRESHOLD
            /\ mapCenter' = detail.trajectory[1]

C21_Floor ==
    \A zoom \in BoundsZooms \cup ZoomLevels :
        FocusTargetZoom(zoom) = Floored(zoom) /\ FocusTargetZoom(zoom) >= DISPLAY_ZOOM_THRESHOLD

\* C21: the focus target zoom is the larger of the zoom computed for the
\* bounds and the threshold, hence at least the threshold; without bounds it
\* is the larger of the map's zoom and the threshold; the view is centred on
\* the first point of the trajectory.
C21_FocusFloor == []C21_Floor /\ [][C21_FocusStep]_vars

C21_Witness ==
    /\ lastActivatedLog # NoLog
    /\ HasPoints(logState, lastActivatedLog)
    /\ logState[lastActivatedLog].detail.boundsZoom = MinZoom
    /\ mapZoom = DISPLAY_ZOOM_THRESHOLD
    /\ mapCenter = "p"
    /\ currentZoom = MinZoom

C22_FocusOpensMap == FocusDue => mapZoom' >= DISPLAY_ZOOM_THRESHOLD

\* the client observes a zoom change: currentZoom takes the map's zoom
C22_ObserveStep ==
    currentZoom' # currentZoom => currentZoom' = mapZoom /\ mapZoom' = mapZoom

\* only the user takes the map below the threshold
C22_OnlyUserLowers ==
    BelowThreshold(mapZoom') /\ mapZoom' # mapZoom => \E zoom \in ZoomLevels : UserZoom(zoom)

C22_FocusedIsRendered ==
    /\ currentZoom # mapZoom => ENABLED ZoomEvent
    /\ /\ lastActivatedLog # NoLog
       /\ HasPoints(logState, lastActivatedLog)
       /\ ~BelowThreshold(currentZoom)
       => Rendered(lastActivatedLog)

\* C22: a focus leaves the map's zoom at or above the threshold, nothing but
\* a zoom by the user takes it below again, and the client's next observation
\* sets currentZoom to the map's zoom; with currentZoom at or above the
\* threshold the focused log's layer is rendered.
C22_FocusOpensGate ==
    [][C22_FocusOpensMap /\ C22_ObserveStep /\ C22_OnlyUserLowers]_vars
        /\ []C22_FocusedIsRendered

C22_Witness ==
    /\ lastActivatedLog # NoLog
    /\ Rendered(lastActivatedLog)
    /\ logState[lastActivatedLog].detail.boundsZoom = NoBounds
    /\ mapCenter = "q"
    /\ currentZoom = mapZoom
    /\ Len(activeLogs) = 2

----------------------------------------------------------------------------
(* Scope of failures *)

\* a fetchLogDetail(logId) settles in the step without leaving a detail
DetailFails(logId) ==
    /\ detailRequests'[logId] < detailRequests[logId]
    /\ ~(logId \in DOMAIN logState' /\ logState'[logId].detail.present)

\* the preview request r is rejected in the step
PreviewFails(r) ==
    /\ SettlesIn(r)
    /\ \E t \in previewRequests' : t.requestId = r.requestId /\ t.state = "rejected"

C23_DetailFailureStep ==
    \A logId \in Ids :
        DetailFails(logId) =>
            /\ DOMAIN logState' = DOMAIN logState
            /\ \A other \in DOMAIN logState \ {logId} : logState'[other] = logState[other]
            /\ logId \in DOMAIN logState =>
                  /\ logState'[logId].error \in Failures
                  /\ logState'[logId].summary = logState[logId].summary
            /\ UNCHANGED <<error, logOrder, activeLogs, lastActivatedLog>>
            /\ UNCHANGED <<isPreviewOpen, previewState, previewImageUrlRef,
                           previewRequestIdRef, objectUrls>>

C23_PreviewFailureStep ==
    \A r \in previewRequests :
        PreviewFails(r) =>
            /\ UNCHANGED <<logState, logOrder, activeLogs, error, detailRequests>>
            /\ previewRequestIdRef = r.requestId =>
                  /\ previewState'.error \in Failures
                  /\ previewImageUrlRef' = NoUrl

\* C23: a detail fetch failure for an identifier changes that identifier's
\* record only, and neither the catalog error, the merged list, the selection
\* nor the preview session; a preview fetch failure changes the preview
\* session and its held URL only, and neither the record store, the merged
\* list, the selection nor the catalog error.
C23_FailuresAreScoped == [][C23_DetailFailureStep /\ C23_PreviewFailureStep]_vars

C23_Witness ==
    \E ko, ok \in DOMAIN logState :
        /\ logState[ko].error \in Failures
        /\ logState[ok].detail.present
        /\ previewState.logId = ok
        /\ previewState.error \in Failures
        /\ error = NoError
        /\ Len(activeLogs) = 2

----------------------------------------------------------------------------
(* C24: single-flight per key.  However many callers ask for the same      *)
(* identifier, and however their requests interleave with the computation, *)
(* exactly one underlying computation is started for an identifier that    *)
(* has been asked for; every caller that has its answer holds the settled  *)
(* outcome of that one computation, result or failure, which never changes *)
(* afterwards; and a request for an identifier that already has an entry   *)
(* starts no further computation.                                          *)

Asked(id) == \E c \in Callers : callers[c].id = id

C24_OneComputation ==
    \A id \in Ids :
        /\ computations[id] <= 1
        /\ (Asked(id) \/ cacheEntries[id] # Absent) => computations[id] = 1
        /\ cacheEntries[id] = Absent => computations[id] = 0

C24_SameAnswer ==
    \A c \in Callers :
        callers[c].reply \in Answers => callers[c].reply = cacheEntries[callers[c].id]

C24_LaterRequestStep ==
    \A id \in Ids :
        /\ cacheEntries[id] # Absent => computations'[id] = computations[id]
        /\ cacheEntries[id] \in Answers => cacheEntries'[id] = cacheEntries[id]

----------------------------------------------------------------------------
(* Focus and the rest of the record store *)

\* the step stores a new record table in which the record of lastActivatedLog,
\* itself unchanged, is what it was
C25_OtherRecordChanges ==
    /\ mounted
    /\ lastActivatedLog' = lastActivatedLog
    /\ lastActivatedLog \in DOMAIN logState
    /\ lastActivatedLog \in DOMAIN logState'
    /\ logState'[lastActivatedLog] = logState[lastActivatedLog]
    /\ logState' # logState

C25_Step == C25_OtherRecordChanges => mapZoom' = mapZoom /\ mapCenter' = mapCenter

\* C25: the map is refocused only when lastActivatedLog changes or when the
\* detail of lastActivatedLog arrives; a step that changes only the record of
\* another identifier leaves the map's zoom and centre as they were.
C25_FocusOnlyOnOwnChange == [][C25_Step]_vars

----------------------------------------------------------------------------
(* The held image across a new activation *)

\* the fetch of the current activation is still in flight
CurrentInFlight ==
    \E r \in previewRequests : r.state = "pending" /\ r.requestId = previewRequestIdRef

\* C26 as stated: while the fetch of the current activation is in flight, and
\* so at the moment its response is committed, no image resource of an
\* earlier session is held.
C26_NoneHeldAtCommit == mounted /\ CurrentInFlight => previewImageUrlRef = NoUrl

\* the step is a trajectory click: the counter advances, the session loads
C26_Activates ==
    /\ mounted
    /\ previewRequestIdRef' = previewRequestIdRef + 1
    /\ previewState'.loading

\* the step settles the fetch of the current activation
C26_Commits ==
    /\ mounted
    /\ \E r \in previewRequests :
          /\ r.state = "pending"
          /\ r.requestId = previewRequestIdRef
          /\ r \notin previewRequests'

C26_ActivationStep ==
    C26_Activates =>
        /\ previewImageUrlRef' = previewImageUrlRef
        /\ objectUrls' = objectUrls
        /\ previewState'.imageUrl = NoUrl

C26_CommitStep ==
    C26_Commits /\ previewImageUrlRef # NoUrl =>
        /\ previewImageUrlRef \notin objectUrls'
        /\ previewImageUrlRef \in revokedUrls'
        /\ previewImageUrlRef' # previewImageUrlRef
        /\ previewState'.imageUrl # previewImageUrlRef

\* C26 (amended): a new activation does not release the image of the session
\* it replaces: the resource stays held, unexposed, while the new fetch is in
\* flight, and the step that commits the new response, image or error,
\* releases it.
C26_ReleasedAtCommit == [][C26_ActivationStep /\ C26_CommitStep]_vars

\* the image of b is shown and held, the image of a, committed before b was
\* clicked, is released
C26_Witness ==
    /\ mounted
    /\ previewState = PreviewImage("b", 2)
    /\ previewImageUrlRef = 2
    /\ objectUrls = {2}
    /\ 1 \in revokedUrls
    /\ \E r \in previewRequests :
          r.requestId = 1 /\ r.logId = "a" /\ r.state = "fulfilled" /\ ~r.late

----------------------------------------------------------------------------
(* The list and the record table *)

\* C27: the identifiers of the merged list are the keys of the record table,
\* in every state: after a page merge, a reset, a failed page load and a
\* detail completion.
C27_ListMatchesStore == Range(logOrder) = DOMAIN logState

\* two pages merged (b before a), a later page load failed, a's detail stored
C27_Witness ==
    /\ logOrder = <<"b", "a">>
    /\ error # NoError
    /\ pageRequests = <<>>
    /\ logState["a"].detail.present
    /\ logState["b"].error # NoError

----------------------------------------------------------------------------
(* The preview and the selection *)

C28_PreviewedIsSelected ==
    previewState # NullPreview => previewState.logId \in Range(activeLogs)

\* the identifier of the current preview leaves the selection in the step
C28_DropsPreviewed ==
    /\ previewState # NullPreview
    /\ previewState.logId \in Range(activeLogs)
    /\ previewState.logId \notin Range(activeLogs')

C28_DeselectStep ==
    C28_DropsPreviewed =>
        /\ previewRequestIdRef' = previewRequestIdRef + 1
        /\ previewState' = NullPreview
        /\ ~isPreviewOpen'
        /\ previewImageUrlRef' = NoUrl
        /\ objectUrls' = {}
        /\ previewImageUrlRef # NoUrl => previewImageUrlRef \in revokedUrls'

C28_ActivateStep ==
    previewState'.logId \notin {NoLog, previewState.logId} =>
        /\ previewState'.logId \in Range(activeLogs)
        /\ activeLogs' = activeLogs

\* C28: a non-empty preview session is for a selected identifier: a preview
\* starts only for a selected identifier, and a step that takes the previewed
\* identifier out of the selection (its checkbox, or unselect-all) increments
\* the counter, revokes the held URL and empties the session.
C28_PreviewWithinSelection ==
    []C28_PreviewedIsSelected /\ [][C28_DeselectStep /\ C28_ActivateStep]_vars

\* a's image was shown and a was then unchecked, b staying selected
C28_Witness ==
    /\ mounted
    /\ activeLogs = <<"b">>
    /\ previewState = NullPreview
    /\ previewRequestIdRef = 2
    /\ objectUrls = {}
    /\ revokedUrls = {1}
    /\ \E r \in previewRequests :
          r.requestId = 1 /\ r.logId = "a" /\ r.state = "fulfilled" /\ ~r.late

----------------------------------------------------------------------------
(* The image the preview panel shows *)

\* C29: while App is mounted, an image exposed by the preview session is the
\* blob URL held in previewImageUrlRef, created and not revoked; a session
\* that is loading or in error exposes no image.
C29_ExposedImageIsHeld ==
    mounted =>
        /\ previewState.imageUrl # NoUrl =>
              /\ previewState.imageUrl = previewImageUrlRef
              /\ previewState.imageUrl \in objectUrls
              /\ previewState.imageUrl \notin revokedUrls
        /\ previewState.loading \/ previewState.error # NoError =>
              previewState.imageUrl = NoUrl

\* an image is shown after the response of an earlier click came late and
\* was revoked
C29_Witness ==
    /\ mounted
    /\ previewState.imageUrl # NoUrl
    /\ \E r \in previewRequests :
          /\ r.state = "fulfilled"
          /\ r.late
          /\ r.requestId \in revokedUrls
          /\ r.requestId < previewState.imageUrl

----------------------------------------------------------------------------
(* The loading flag and the fetch *)

\* C30: while App is mounted, a record's loading flag is true exactly while
\* a fetchLogDetail for its identifier is outstanding, and at most one is: no
\* record is loading with no fetch in flight, none is idle with one in flight.
C30_LoadingIffInFlight ==
    mounted =>
        \A logId \in DOMAIN logState :
            /\ detailRequests[logId] \in {0, 1}
            /\ logState[logId].loading <=> detailRequests[logId] = 1

\* a is fetched again after a failure while b's fetch has completed
C30_Witness ==
    /\ mounted
    /\ DOMAIN logState = {"a", "b"}
    /\ logState["a"].loading
    /\ logState["a"].error # NoError
    /\ detailRequests["a"] = 1
    /\ logState["b"].detail.present
    /\ ~logState["b"].loading
    /\ detailRequests["b"] = 0

----------------------------------------------------------------------------
(* Every activated identifier is settled in the end *)

Activated(logId) == logId \in Range(activeLogs) /\ logId \in DOMAIN logState

\* the record is at rest with a detail or with an error
Settled(logId) ==
    /\ logId \in DOMAIN logState
    /\ ~logState[logId].loading
    /\ logState[logId].detail.present \/ logState[logId].error # NoError

C31_NeverStranded ==
    \A logId \in Ids :
        Activated(logId) =>
            \/ detailRequests[logId] > 0
            \/ logState[logId].detail.present
            \/ logState[logId].error # NoError

\* C31: when every fetchLogDetail settles in the end, every activated
\* identifier comes to rest, not loading, with its detail or with an error;
\* and at no time is an activated identifier with a record left without a
\* fetch in flight, without detail and without error.
C31_ActivatedSettles ==
    /\ []C31_NeverStranded
    /\ \A logId \in Ids : Activated(logId) ~> Settled(logId)

\* both are selected; a has come to rest with its detail, b with an error
C31_Witness ==
    /\ activeLogs = <<"a", "b">>
    /\ Settled("a") /\ logState["a"].detail.present
    /\ Settled("b") /\ ~logState["b"].detail.present
    /\ detailRequests = [logId \in Ids |-> 0]

----------------------------------------------------------------------------
(* The layers handed to the map: more logs than palette colours.  A page    *)
(* of MaxLayers logs has been merged and select-all ticked, so every record *)
(* is loading; the fetches then settle in any order.  The logs of Ids may   *)
(* come back without points or fail, the others come back with points.      *)

MaxLayers == 8

KeySeq == <<"a", "b", "c", "d", "e", "f", "g", "h", "i", "j">>
LayerKeys == {KeySeq[i] : i \in 1..MaxLayers}

Reverse(s) == [i \in 1..Len(s) |-> s[Len(s) + 1 - i]]

\* the page as the server lists it: in this order or the other way round
LayerPages ==
    LET page == [i \in 1..MaxLayers |-> [log_id |-> KeySeq[i], num_points |-> 1]]
    IN  {page, Reverse(page)}

InitLayers ==
    /\ \E page \in LayerPages :
          /\ logOrder = MergeLogOrder(TRUE, <<>>, page)
          /\ activeLogs = Dedup({}, logOrder)
          /\ logState = DetailFetchEffect(activeLogs, MergeLogState(TRUE, EmptyMap, page))
    /\ detailRequests = [logId \in LayerKeys |-> 1]
    /\ error = NoError
    /\ isLoadingSummaries = FALSE
    /\ isLoadingMore = FALSE
    /\ totalLogs = MaxLayers
    /\ nextOffset = NoNumber
    /\ lastActivatedLog = NoLog
    /\ currentZoom \in ZoomLevels
    /\ hoveredLogId = NoLog
    /\ isPreviewOpen = FALSE
    /\ previewState = NullPreview
    /\ previewImageUrlRef = NoUrl
    /\ previewRequestIdRef = 0
    /\ mounted = TRUE
    /\ mapZoom = currentZoom
    /\ mapCenter = "default"
    /\ pageRequests = <<>>
    /\ previewRequests = {}
    /\ objectUrls = {}
    /\ revokedUrls = {}
    /\ ServerIdle

LayersNext ==
    \/ \E logId \in LayerKeys : DetailResolve(logId, Detail(<<"p">>, MinZoom))
    \/ \E logId \in Ids : DetailResolve(logId, Detail(<<>>, NoBounds))
    \/ \E logId \in Ids, msg \in OneFailure : DetailReject(logId, msg)

SpecLayers == InitLayers /\ [][LayersNext]_vars

\* the selected identifiers whose record has a detail with a point
Drawn ==
    {logId \in Range(activeLogs) :
        /\ logId \in DOMAIN logState
        /\ logState[logId].detail.present
        /\ logState[logId].detail.trajectory # <<>>}

\* the place of logId in the selection
PlaceOf(logId) == CHOOSE i \in 1..Len(activeLogs) : activeLogs[i] = logId

\* the drawn identifiers selected before logId
DrawnBefore(logId) == {other \in Drawn : PlaceOf(other) < PlaceOf(logId)}

\* C32: the layers are the selected identifiers whose record has a detail
\* with at least one point, each once, in the order of selection; a layer's
\* colour is the number of layers before it modulo the 7 palette colours, so
\* a selected identifier that is loading, failed or without points takes no
\* colour; and a layer is on the map only with currentZoom at or above the
\* threshold.
C32_LayersAndColours ==
    LET layers == polylineData(activeLogs, logState)
    IN  /\ {layers[k].logId : k \in 1..Len(layers)} = Drawn
        /\ Len(layers) = Cardinality(Drawn)
        /\ \A j, k \in 1..Len(layers) :
              j < k => PlaceOf(layers[j].logId) < PlaceOf(layers[k].logId)
        /\ \A k \in 1..Len(layers) :
              layers[k].color = Cardinality(DrawnBefore(layers[k].logId)) % 7
        /\ \A logId \in LayerKeys :
              Rendered(logId) <=>
                  logId \in Drawn /\ currentZoom >= DISPLAY_ZOOM_THRESHOLD

\* a has failed and takes no colour: b, selected second, has the first
\* colour, and the eighth log, seventh layer, the last one
C32_Witness ==
    LET layers == polylineData(activeLogs, logState)
    IN  /\ activeLogs[1] = "a"
        /\ logState["a"].error # NoError
        /\ Len(layers) = MaxLayers - 1
        /\ layers[1] = [logId |-> "b", color |-> 0]
        /\ layers[Len(layers)].color = (MaxLayers - 2) % NumColors
        /\ Rendered("b")

=============================================================================
